---- MODULE Spec2Model ----
(***************************************************************************)
(* A model of porm (src/porm.py): a small sqlite3 <-> python ORM layer.   *)
(*                                                                         *)
(* The module under study has three functions, query, save and orm, that   *)
(* talk to a connection object by building SQL text.  The model keeps the  *)
(* text: a python str is a sequence of one-character strings, statements   *)
(* carry the formatted text of their where clause and of their literals,   *)
(* and the connection parses that text again.  A call of query or save is  *)
(* one action; the recursion of orm through query is a recursive operator. *)
(***************************************************************************)
EXTENDS Integers, Sequences, FiniteSets, TLC

VARIABLES db, call, status, result, log

vars == <<db, call, status, result, log>>

-----------------------------------------------------------------------------
(* Bounds of the model.                                                    *)

\* The database holds at most MaxRows rows, all tables together.
MaxRows == 4

\* The ids a row may carry (the header assumes every valid id is > 0).
Ids == {1, 2}

\* The depth of nested query calls beyond which a call is reported as
\* diverged.  A chain of lookups that never meets the same row twice visits
\* at most MaxRows rows and then issues one last lookup that finds nothing,
\* so only a chain that runs round a cycle of rows gets deeper than this,
\* and such a chain never ends (python stops it with a RecursionError once
\* the interpreter's stack limit is reached; no result is returned).
MaxDepth == MaxRows + 1

-----------------------------------------------------------------------------
(* Python values and strings.                                              *)

\* A value is a pair <<type, payload>>: position 1 is its python type and
\* position 2 the int, the text, or the attribute dictionary.
IntV(n)  == <<"int", n>>
TextV(s) == <<"text", s>>
\* python None, which is also what sqlite3 delivers for an SQL NULL
NullV    == <<"null", 0>>

\* class Pormo: an instance is its attribute dictionary, name -> value
Pormo(attrs) == <<"obj", attrs>>

TypeOf(v) == v[1]
ValOf(v)  == v[2]

\* getattr(instance, name)
getattr(instance, name) == instance[2][name]

\* the attributes dir() reports for every instance because the class has them
PormoClassAttrs ==
    { <<"_","_","d","o","c","_","_">>, <<"_","_","m","o","d","u","l","e","_","_">> }

\* dir(instance): the names of its own attributes and of its class's
dir(instance) == DOMAIN instance[2] \cup PormoClassAttrs

S_id    == <<"i","d">>
S_nm    == <<"n","m">>
S_uid   == <<"_","i","d">>
S_d_id  == <<"d","_","i","d">>
S_c_id  == <<"c","_","i","d">>
S_t_id  == <<"t","_","i","d">>
S_a_id  == <<"a","_","i","d">>
S_b_id  == <<"b","_","i","d">>
S_None  == <<"N","o","n","e">>
S_Ann   == <<"A","n","n">>
S_OB    == <<"O","'","B">>
S_where == <<"w","h","e","r","e"," ">>
S_ideq  == <<"i","d"," ","="," ">>

Digit == <<"0","1","2","3","4","5","6","7","8","9">>

RECURSIVE IntToStr(_)
\* the text python's %i and %s give for a non-negative int
IntToStr(n) ==
    IF n < 10 THEN <<Digit[n + 1]>>
    ELSE IntToStr(n \div 10) \o <<Digit[(n % 10) + 1]>>

IsDigits(s) ==
    /\ Len(s) > 0
    /\ \A i \in 1..Len(s) : \E k \in 1..10 : Digit[k] = s[i]

DigitVal(c) == (CHOOSE k \in 1..10 : Digit[k] = c) - 1

RECURSIVE StrToInt(_)
\* the integer a text of digits denotes
StrToInt(s) ==
    IF Len(s) = 0 THEN 0
    ELSE 10 * StrToInt(SubSeq(s, 1, Len(s) - 1)) + DigitVal(s[Len(s)])

\* '%i' % v raises TypeError unless v is a number
FmtIOk(v) == TypeOf(v) = "int"
FmtI(v)   == IntToStr(ValOf(v))

\* '%s' % v
FmtS(v) ==
    CASE TypeOf(v) = "int"  -> IntToStr(ValOf(v))
      [] TypeOf(v) = "text" -> ValOf(v)
      [] TypeOf(v) = "null" -> S_None
      [] OTHER        -> <<"<","P","o","r","m","o",">">>

-----------------------------------------------------------------------------
(* The connection: what db.execute and db.commit do with a statement.      *)

Entry(kind, table, where, sets, depth) ==
    [kind |-> kind, table |-> table, where |-> where, sets |-> sets,
     depth |-> depth]

CommitEntry == Entry("commit", <<>>, <<>>, <<>>, 0)

\* the declared type of a column, which decides how a literal is stored
Affinity(col) ==
    IF col = S_id THEN "pk" ELSE IF col = S_nm THEN "text" ELSE "integer"

\* the rows a where clause selects; st = "error" for text that is no clause
SelectRows(tbl, where) ==
    LET n == Len(S_where) + Len(S_ideq) IN
    IF Len(where) = 0
    THEN [st |-> "ok", rows |-> tbl.rows]
    ELSE IF /\ Len(where) > n
            /\ SubSeq(where, 1, n) = S_where \o S_ideq
            /\ IsDigits(SubSeq(where, n + 1, Len(where)))
    THEN LET k  == StrToInt(SubSeq(where, n + 1, Len(where)))
             ix == CHOOSE j \in 1..Len(tbl.cols) : tbl.cols[j] = S_id
         IN  [st |-> "ok",
              rows |-> SelectSeq(tbl.rows, LAMBDA r : r[ix] = IntV(k))]
    ELSE [st |-> "error", rows |-> <<>>]

\* db.execute of a select: a cursor with its rows and its description
ExecuteSelect(d, table, where) ==
    IF table \notin DOMAIN d
    THEN [st |-> "error", rows |-> <<>>, description |-> <<>>]
    ELSE LET s == SelectRows(d[table], where)
         IN  [st |-> s.st, rows |-> s.rows, description |-> d[table].cols]

\* the value a quoted literal leaves in a column of the given type
Stored(col, text) ==
    IF Affinity(col) \in {"pk", "integer"} /\ IsDigits(text)
    THEN IntV(StrToInt(text))
    ELSE TextV(text)

\* db.execute of  update <table> set f='v',... where id=<idtext>
ExecuteUpdate(d, table, sets, idtext) ==
    IF \/ table \notin DOMAIN d
       \/ \E f \in DOMAIN sets : \E i \in 1..Len(sets[f]) : sets[f][i] = "'"
    THEN [st |-> "error", db |-> d]
    ELSE LET tbl == d[table]
             cols == {tbl.cols[j] : j \in 1..Len(tbl.cols)}
             ix == CHOOSE j \in 1..Len(tbl.cols) : tbl.cols[j] = S_id
             k  == StrToInt(idtext)
             hit(r) == r[ix] = IntV(k)
             new(r) == [j \in 1..Len(tbl.cols) |->
                          IF tbl.cols[j] \in DOMAIN sets
                          THEN Stored(tbl.cols[j], sets[tbl.cols[j]])
                          ELSE r[j]]
             rows == [j \in 1..Len(tbl.rows) |->
                          IF hit(tbl.rows[j]) THEN new(tbl.rows[j])
                          ELSE tbl.rows[j]]
             ids == [j \in 1..Len(rows) |-> rows[j][ix]]
         IN  IF \/ ~(DOMAIN sets \subseteq cols)
                \/ \E j \in 1..Len(rows) : TypeOf(ids[j]) # "int"
                \/ \E i, j \in 1..Len(rows) : i # j /\ ids[i] = ids[j]
             THEN [st |-> "error", db |-> d]
             ELSE [st |-> "ok",
                   db |-> [d EXCEPT ![table] = [tbl EXCEPT !.rows = rows]]]

\* db.execute of  insert into <table> (f,...) values (v,...)  whose values
\* are bare, unquoted text: only a numeric token is a value
ExecuteInsert(d, table, sets) ==
    IF \/ table \notin DOMAIN d
       \/ \E f \in DOMAIN sets : ~IsDigits(sets[f])
       \/ ~(DOMAIN sets \subseteq {d[table].cols[j] : j \in 1..Len(d[table].cols)})
    THEN [st |-> "error", db |-> d]
    ELSE LET tbl == d[table]
             ix  == CHOOSE j \in 1..Len(tbl.cols) : tbl.cols[j] = S_id
             row == [j \in 1..Len(tbl.cols) |->
                        IF tbl.cols[j] \in DOMAIN sets
                        THEN IntV(StrToInt(sets[tbl.cols[j]])) ELSE NullV]
         IN  IF \E j \in 1..Len(tbl.rows) : tbl.rows[j][ix] = row[ix]
             THEN [st |-> "error", db |-> d]
             ELSE [st |-> "ok",
                   db |-> [d EXCEPT ![table] =
                              [tbl EXCEPT !.rows = Append(tbl.rows, row)]]]

-----------------------------------------------------------------------------
(* query and orm.                                                          *)

\* a variant of WhereClause that loses the caller's filter
WhereDropped(where) == <<>>

\* line 58:  if len(where) is not 0: where = 'where %s' % where
WhereClause(where) == IF Len(where) # 0 THEN S_where \o where ELSE where

\* a variant of IsFKey that ignores the caller's fkeylookup flag
IsFKeyAlways(fkeylookup, name) ==
    /\ Len(name) > 3
    /\ SubSeq(name, Len(name) - 2, Len(name)) = S_uid

\* line 152: the test that makes a column a foreign key
IsFKey(fkeylookup, name) ==
    /\ fkeylookup
    /\ Len(name) > 3
    /\ SubSeq(name, Len(name) - 2, Len(name)) = S_uid

\* a variant of RefTable that cuts one character too few, name[:-2]
RefTableShort(name) == SubSeq(name, 1, Len(name) - 2)

\* line 154: name[:-3], the table a foreign key column refers to
RefTable(name) == SubSeq(name, 1, Len(name) - 3)

\* line 154: 'id = %i' % val
IdFilter(val) == S_ideq \o FmtI(val)

\* lines 156-157: the attribute value for the outcome of a lookup
Resolved(val) == IF Len(val) >= 1 THEN val[1] ELSE NullV

\* a variant of ObjsAppend that puts the new object first
ObjsPrepend(objs, obj) == <<obj>> \o objs

\* line 163: objs.append(obj)
ObjsAppend(objs, obj) == Append(objs, obj)

RECURSIVE query(_, _, _, _, _)
RECURSIVE orm(_, _, _, _, _)

\* a variant of Lookup that does not resolve the referenced row's own keys
LookupFlat(d, name, val, depth) ==
    query(d, RefTable(name), IdFilter(val), FALSE, depth + 1)

\* line 154: val = query(db, name[:-3], 'id = %i' % val), lookup left enabled
Lookup(d, name, val, depth) ==
    query(d, RefTable(name), IdFilter(val), TRUE, depth + 1)

RECURSIVE OrmRows(_, _, _, _, _, _, _, _)
RECURSIVE OrmCols(_, _, _, _, _, _, _, _)

\* lines 148-161: the columns of one row from position i on
OrmCols(d, row, rownames, fkeylookup, depth, i, attrs, lg) ==
    IF i > Len(rownames)
    THEN [st |-> "ok", attrs |-> attrs, log |-> lg]
    ELSE LET name == rownames[i]
             val  == row[i]
         IN  IF IsFKey(fkeylookup, name)
             THEN IF ~FmtIOk(val)
                  THEN [st |-> "error", attrs |-> attrs, log |-> lg]
                  ELSE LET r == Lookup(d, name, val, depth)
                       IN  IF r.st # "ok"
                           THEN [st |-> r.st, attrs |-> attrs,
                                 log |-> lg \o r.log]
                           ELSE OrmCols(d, row, rownames, fkeylookup, depth,
                                        i + 1,
                                        (name :> Resolved(r.objs)) @@ attrs,
                                        lg \o r.log)
             ELSE OrmCols(d, row, rownames, fkeylookup, depth, i + 1,
                          (name :> val) @@ attrs, lg)

\* lines 143-163: the rows from position k on
OrmRows(d, rows, rownames, fkeylookup, depth, k, objs, lg) ==
    IF k > Len(rows)
    THEN [st |-> "ok", objs |-> objs, log |-> lg]
    ELSE LET c == OrmCols(d, rows[k], rownames, fkeylookup, depth, 1,
                          <<>>, lg)
         IN  IF c.st # "ok"
             THEN [st |-> c.st, objs |-> <<>>, log |-> c.log]
             ELSE OrmRows(d, rows, rownames, fkeylookup, depth, k + 1,
                          ObjsAppend(objs, Pormo(c.attrs)), c.log)

\* def orm(db, table, cursor, fkeylookup)
orm(d, table, cursor, fkeylookup, depth) ==
    OrmRows(d, cursor.rows, cursor.description, fkeylookup, depth, 1,
            <<>>, <<>>)

\* def query(db, table, where, fkeylookup); depth counts the nested calls
query(d, table, where, fkeylookup, depth) ==
    IF depth > MaxDepth
    THEN [st |-> "diverged", objs |-> <<>>, log |-> <<>>]
    ELSE LET w      == WhereClause(where)
             e      == Entry("select", table, w, <<>>, depth)
             cursor == ExecuteSelect(d, table, w)
         IN  IF cursor.st # "ok"
             THEN [st |-> "error", objs |-> <<>>, log |-> <<e>>]
             ELSE LET r == orm(d, table, cursor, fkeylookup, depth)
                  IN  [st |-> r.st, objs |-> r.objs, log |-> <<e>> \o r.log]

-----------------------------------------------------------------------------
(* save.                                                                   *)

\* line 76: instance.id == 0
IsNew(instance) == getattr(instance, S_id) = IntV(0)

\* line 83: exists = len(exists) is not 0
Exists(rows) == Len(rows) # 0

\* line 85: fields = [f for f in dir(instance) if f[0:2] != '__']
\* (dir() lists the names in alphabetical order; the order of the fields in
\* a statement does not change what the statement does, so a set is kept)
Fields(instance) ==
    { f \in dir(instance) :
          SubSeq(f, 1, 2) # <<"_","_">> }

\* lines 89-91: a foreign key object is replaced by its id
Flatten(v) == IF TypeOf(v) = "obj" THEN getattr(v, S_id) ELSE v

\* line 86 and lines 89-91: the value saved for each field
Values(instance) == [f \in Fields(instance) |-> Flatten(getattr(instance, f))]

\* line 98: the quoted literal of each field
Exprs(values) == [f \in DOMAIN values |-> FmtS(values[f])]

\* line 106: ','.join(values) raises TypeError unless every value is a str
JoinOk(values) == \A f \in DOMAIN values : TypeOf(values[f]) = "text"

\* lines 93-111: the statement and the commit, once exists is known
SaveWrite(d, table, instance, exists, lg) ==
    LET values == Values(instance) IN
    IF exists
    THEN LET sets == Exprs(values)
             idt  == FmtI(getattr(instance, S_id))
             e    == Entry("update", table, idt, sets, 0)
             r    == ExecuteUpdate(d, table, sets, idt)
         IN  IF r.st # "ok"
             THEN [st |-> "error", db |-> d, log |-> Append(lg, e)]
             ELSE [st |-> "ok", db |-> r.db,
                   log |-> lg \o <<e, CommitEntry>>]
    ELSE IF ~JoinOk(values)
         THEN [st |-> "error", db |-> d, log |-> lg]
         ELSE LET sets == [f \in DOMAIN values |-> ValOf(values[f])]
                  e    == Entry("insert", table, <<>>, sets, 0)
                  r    == ExecuteInsert(d, table, sets)
              IN  IF r.st # "ok"
                  THEN [st |-> "error", db |-> d, log |-> Append(lg, e)]
                  ELSE [st |-> "ok", db |-> r.db,
                        log |-> lg \o <<e, CommitEntry>>]

\* def save(db, table, instance)
save(d, table, instance) ==
    IF IsNew(instance)
    THEN SaveWrite(d, table, instance, FALSE, <<>>)
    ELSE IF ~FmtIOk(getattr(instance, S_id))
    THEN [st |-> "error", db |-> d, log |-> <<>>]
    ELSE LET w == S_where \o S_ideq \o FmtI(getattr(instance, S_id))
             e == Entry("select", table, w, <<>>, 0)
             c == ExecuteSelect(d, table, w)
         IN  IF c.st # "ok"
             THEN [st |-> "error", db |-> d, log |-> <<e>>]
             ELSE SaveWrite(d, table, instance, Exists(c.rows), <<e>>)

-----------------------------------------------------------------------------
(* The databases and the inputs of the calls.                              *)

T_p == <<"p">>
T_d == <<"d">>
T_c == <<"c">>
T_t == <<"t">>
T_a == <<"a">>
T_b == <<"b">>
T_n == <<"n">>

\* what a referencing column may hold: an id, or NULL for no reference
FkVals == {NullV} \cup {IntV(i) : i \in Ids}

\* the values a column is filled with
ColVals(table, col) ==
    CASE col = S_id                -> {IntV(i) : i \in Ids}
      [] col = S_nm /\ table = T_n -> {NullV, TextV(S_Ann), TextV(S_OB)}
      [] col = S_nm                -> {TextV(S_Ann)}
      [] col = S_uid               -> {IntV(1)}
      [] table \in {T_a, T_b}      -> {IntV(i) : i \in Ids}
      [] OTHER                     -> FkVals

\* the rows a table of these columns may hold
RowsOf(table, cols) ==
    { r \in [1..Len(cols) -> UNION {ColVals(table, cols[j]) : j \in 1..Len(cols)}] :
          \A j \in 1..Len(cols) : r[j] \in ColVals(table, cols[j]) }

\* a table's contents: rows in ascending id order (id is the rowid)
TablesOf(table, cols) ==
    LET R == RowsOf(table, cols) IN
    { [cols |-> cols, rows |-> s] :
        s \in UNION { { q \in [1..n -> R] :
                          \A j \in 1..(n - 1) : ValOf(q[j][1]) < ValOf(q[j + 1][1]) } :
                      n \in 0..Cardinality(Ids) } }

RowCount(d) ==
    LET RECURSIVE Sum(_)
        Sum(S) == IF S = {} THEN 0
                  ELSE LET x == CHOOSE y \in S : TRUE
                       IN  Len(d[x].rows) + Sum(S \ {x})
    IN  Sum(DOMAIN d)

\* people -> department -> company, as  [table]_id  columns
ChainDbs ==
    { (T_p :> p) @@ (T_d :> dd) @@ (T_c :> c) :
        p  \in TablesOf(T_p, <<S_id, S_nm, S_d_id>>),
        dd \in TablesOf(T_d, <<S_id, S_c_id>>),
        c  \in TablesOf(T_c, <<S_id, S_uid>>) }

\* a table that refers to itself
SelfDbs == { (T_t :> t) : t \in TablesOf(T_t, <<S_id, S_t_id>>) }

\* two tables that refer to each other
CycleDbs ==
    { (T_a :> a) @@ (T_b :> b) :
        a \in TablesOf(T_a, <<S_id, S_b_id>>),
        b \in TablesOf(T_b, <<S_id, S_a_id>>) }

\* a table of text
TextDbs == { (T_n :> n) : n \in TablesOf(T_n, <<S_id, S_nm>>) }

Databases ==
    { d \in ChainDbs \cup SelfDbs \cup CycleDbs \cup TextDbs :
          RowCount(d) <= MaxRows }

\* the where arguments of a call of query
Wheres == {<<>>} \cup {S_ideq \o IntToStr(i) : i \in Ids}

\* instances a caller builds by hand for a table
Fresh(d, table) ==
    LET cols == d[table].cols
        dom(col) ==
            CASE col = S_id  -> {IntV(0)} \cup {IntV(i) : i \in Ids}
              [] col = S_nm  -> {TextV(S_Ann)}
              [] col = S_uid -> {IntV(1)}
              [] OTHER       -> {IntV(1)}
    IN  { Pormo(a) :
            a \in { f \in [{cols[j] : j \in 1..Len(cols)} ->
                             UNION {dom(cols[j]) : j \in 1..Len(cols)}] :
                      \A j \in 1..Len(cols) : f[cols[j]] \in dom(cols[j]) } }

NoCall == [op |-> "none", table |-> <<>>, where |-> <<>>,
           fkeylookup |-> FALSE, instance |-> NullV]

-----------------------------------------------------------------------------
(* The state machine.                                                      *)

Init ==
    /\ db \in Databases
    /\ call = NoCall
    /\ status = "ok"
    /\ result = <<>>
    /\ log = <<>>

\* a call  query(db, table, where, fkeylookup)
Query ==
    \E table \in DOMAIN db, where \in Wheres, fkeylookup \in BOOLEAN :
        LET r == query(db, table, where, fkeylookup, 1) IN
        /\ call' = [op |-> "query", table |-> table, where |-> where,
                    fkeylookup |-> fkeylookup, instance |-> NullV]
        /\ status' = r.st
        /\ result' = r.objs
        /\ log' = r.log
        /\ UNCHANGED db

SaveStep(table, instance) ==
    LET r == save(db, table, instance) IN
    /\ call' = [op |-> "save", table |-> table, where |-> <<>>,
                fkeylookup |-> FALSE, instance |-> instance]
    /\ status' = r.st
    /\ result' = <<>>
    /\ log' = r.log
    /\ db' = r.db

\* a call  save(db, table, r)  with a Record the last query returned
SaveQueried ==
    /\ call.op = "query"
    /\ \E k \in 1..Len(result) : SaveStep(call.table, result[k])

\* a call  save(db, table, instance)  with an instance built by the caller
SaveFresh ==
    \E table \in DOMAIN db : \E instance \in Fresh(db, table) :
        SaveStep(table, instance)

Next == Query \/ SaveQueried \/ SaveFresh

Spec == Init /\ [][Next]_vars

-----------------------------------------------------------------------------
(* What the properties below speak about, stated on the data alone.        *)

\* the referencing columns of the schemas and the table each refers to
FkCols == {S_d_id, S_c_id, S_t_id, S_a_id, S_b_id}

RefOf(col) ==
    CASE col = S_d_id -> T_d
      [] col = S_c_id -> T_c
      [] col = S_t_id -> T_t
      [] col = S_a_id -> T_a
      [] col = S_b_id -> T_b

ColSet(d, table) == {d[table].cols[j] : j \in 1..Len(d[table].cols)}

ColIx(d, table, col) ==
    CHOOSE j \in 1..Len(d[table].cols) : d[table].cols[j] = col

\* the rows of a table whose id column holds the value v
RowsWithId(d, table, v) ==
    IF table \notin DOMAIN d THEN <<>>
    ELSE SelectSeq(d[table].rows, LAMBDA r : r[ColIx(d, table, S_id)] = v)

\* the rows a call  query(db, table, where)  fetches
Fetched(d, table, where) ==
    IF where = <<>> THEN d[table].rows
    ELSE LET i == CHOOSE k \in Ids : where = S_ideq \o IntToStr(k)
         IN  RowsWithId(d, table, IntV(i))

\* rows as nodes <<table, id>>, and the references between them
Nodes(d) ==
    { n \in (DOMAIN d) \X Ids : Len(RowsWithId(d, n[1], IntV(n[2]))) > 0 }

RowOf(d, n) == RowsWithId(d, n[1], IntV(n[2]))[1]

Edges(d) ==
    { e \in Nodes(d) \X Nodes(d) :
        \E col \in ColSet(d, e[1][1]) \cap FkCols :
            /\ RefOf(col) = e[2][1]
            /\ RowOf(d, e[1])[ColIx(d, e[1][1], col)] = IntV(e[2][2]) }

RECURSIVE Closure(_, _)
Closure(R, n) ==
    IF n = 0 THEN R
    ELSE Closure(R \cup { p \in {<<e[1], f[2]>> : e \in R, f \in R} :
                                \E m \in {e[2] : e \in R} :
                                    <<p[1], m>> \in R /\ <<m, p[2]>> \in R },
                 n - 1)

Reach(d) == Closure(Edges(d), Cardinality(Nodes(d)))

\* no row refers, directly or through other rows, to itself
AcyclicData(d) ==
    LET r == Reach(d) IN \A e \in r : e[1] # e[2]

\* the row n leads round a cycle of rows
ReachesCycle(d, n) ==
    LET r == Reach(d) IN
    \E e \in r : e[1] = e[2] /\ (e[1] = n \/ <<n, e[1]>> \in r)

\* every referencing column of every row holds an integer
AllFkInts(d) ==
    \A table \in DOMAIN d : \A col \in ColSet(d, table) \cap FkCols :
        \A k \in 1..Len(d[table].rows) :
            TypeOf(d[table].rows[k][ColIx(d, table, col)]) = "int"

RECURSIVE ChainFrom(_, _, _)
\* the number of references on the longest chain of E that starts at row n
ChainFrom(E, n, fuel) ==
    LET next == {e[2] : e \in {f \in E : f[1] = n}} IN
    IF fuel = 0 \/ next = {} THEN 0
    ELSE LET lens == {ChainFrom(E, m, fuel - 1) : m \in next}
         IN  1 + (CHOOSE x \in lens : \A y \in lens : y <= x)

LongestChain(d) ==
    LET E    == Edges(d)
        lens == {ChainFrom(E, e[1], MaxRows) : e \in E}
    IN  IF E = {} THEN 0 ELSE CHOOSE x \in lens : \A y \in lens : y <= x

RECURSIVE Nesting(_)
\* how deep Records are nested inside a value
Nesting(v) ==
    IF TypeOf(v) # "obj" THEN 0
    ELSE LET lens == {Nesting(getattr(v, f)) + 1 :
                           f \in {g \in DOMAIN ValOf(v) : TypeOf(getattr(v, g)) = "obj"}}
         IN  IF lens = {} THEN 0 ELSE CHOOSE x \in lens : \A y \in lens : y <= x

Kinds(lg, kinds) == SelectSeq(lg, LAMBDA e : e.kind \in kinds)

-----------------------------------------------------------------------------
(* The properties.                                                         *)

\* the step is a save of a Record that  query(db, T, 'id = i')  has just
\* returned, handed back to the same table as it came
RoundTripStep ==
    /\ call.op = "query" /\ call.fkeylookup /\ call.where # <<>>
    /\ status = "ok"
    /\ call'.op = "save" /\ call'.table = call.table
    /\ \E k \in 1..Len(result) : call'.instance = result[k]

\* C1: querying a row by its id and saving the returned Record unmodified
\* leaves every column of that row, and every other row of the database,
\* unchanged; also for a row whose reference was resolved to a nested Record
\* and for a row whose reference resolved to the null marker.
C1_RoundTripUnchanged == [][RoundTripStep => db' = db]_vars

\* C2: saving a freshly built Record whose id is 0 raises no error and adds
\* exactly one row to the table, also when the table was empty.
C2_FreshInsertAddsOneRow ==
    [][(call'.op = "save" /\ getattr(call'.instance, S_id) = IntV(0))
         => /\ status' = "ok"
            /\ Len(db'[call'.table].rows) = Len(db[call'.table].rows) + 1
      ]_vars

\* C3: save issues an UPDATE and no INSERT when the Record's id is nonzero
\* and a row with that id exists; an INSERT and no UPDATE when the id is
\* nonzero and no such row exists; an INSERT and no UPDATE when the id is 0.
C3_StatementKind ==
    [][call'.op = "save"
         => LET idv    == getattr(call'.instance, S_id)
                known  == idv # IntV(0)
                           /\ Len(RowsWithId(db, call'.table, idv)) > 0
                nUpd   == Len(Kinds(log', {"update"}))
                nIns   == Len(Kinds(log', {"insert"}))
            IN  IF known THEN nUpd = 1 /\ nIns = 0
                         ELSE nIns = 1 /\ nUpd = 0
      ]_vars

\* C8: every call of save executes exactly one write statement (an UPDATE
\* or an INSERT), preceded by at most one probing SELECT that is issued only
\* when the id is nonzero, and followed by exactly one commit; nothing else
\* is executed.
C8_OneWriteOneCommit ==
    call.op = "save"
      => LET probed == getattr(call.instance, S_id) # IntV(0)
             n      == Len(log)
         IN  /\ n = (IF probed THEN 3 ELSE 2)
             /\ probed => log[1].kind = "select"
             /\ log[n - 1].kind \in {"update", "insert"}
             /\ log[n] = CommitEntry

\* the rows the last call of query fetched, and their columns
LastRows == Fetched(db, call.table, call.where)
LastCols == db[call.table].cols

\* C4: with lookup enabled, a row whose <ref>_id value matches the id of no
\* row of table <ref> yields a Record whose <ref>_id attribute is None; no
\* error is raised and the result has as many Records as rows were fetched.
\* (Stated for data without cycles of references, where a query ends.)
C4_DanglingKeyIsNone ==
    (call.op = "query" /\ call.fkeylookup /\ AcyclicData(db))
      => \A k \in 1..Len(LastRows) : \A j \in 1..Len(LastCols) :
            ( /\ LastCols[j] \in FkCols
              /\ Len(RowsWithId(db, RefOf(LastCols[j]), LastRows[k][j])) = 0 )
              => /\ status = "ok"
                 /\ Len(result) = Len(LastRows)
                 /\ getattr(result[k], LastCols[j]) = NullV

\* the column at position j makes the last call look a row up
Triggers(j) == call.fkeylookup /\ LastCols[j] \notin {S_id, S_nm, S_uid}

\* C5: a nested lookup is issued for a column if and only if fkeylookup is
\* enabled and the column name ends in '_id' and is longer than 3 characters;
\* never for 'id', for a name not ending in '_id', for '_id' itself, or when
\* the caller passes fkeylookup=False, and then the attribute holds the raw
\* column value.
C5_LookupTrigger ==
    call.op = "query"
      => LET lookups == SelectSeq(log, LAMBDA e : e.depth = 2)
             nTrig   == Cardinality({j \in 1..Len(LastCols) : Triggers(j)})
         IN  /\ nTrig = 0 => status = "ok" /\ Len(log) = 1
             /\ status = "ok"
                  => /\ Len(lookups) = Len(LastRows) * nTrig
                     /\ \A k \in 1..Len(LastRows) : \A j \in 1..Len(LastCols) :
                          IF Triggers(j)
                          THEN \E i \in 1..Len(lookups) :
                                 /\ lookups[i].kind = "select"
                                 /\ lookups[i].table = RefOf(LastCols[j])
                                 /\ lookups[i].where =
                                      S_where \o S_ideq \o IntToStr(ValOf(LastRows[k][j]))
                          ELSE getattr(result[k], LastCols[j]) = LastRows[k][j]

C5_Witness ==
    /\ call.op = "query" /\ call.fkeylookup /\ status = "ok"
    /\ call.table = T_p /\ Len(result) = 2
    /\ \E i \in 1..Len(log) : log[i].depth = 2

RECURSIVE IsRecordOf(_, _, _, _, _)
\* obj is the Record of the given row: its columns, each reference replaced
\* by the Record of the row it refers to, or by None when there is none
IsRecordOf(obj, d, table, row, fuel) ==
    /\ TypeOf(obj) = "obj"
    /\ DOMAIN ValOf(obj) = ColSet(d, table)
    /\ \A col \in ColSet(d, table) :
         LET raw == row[ColIx(d, table, col)] IN
         IF col \in FkCols
         THEN LET tgt == RowsWithId(d, RefOf(col), raw) IN
              IF Len(tgt) > 0
              THEN fuel > 0 /\ IsRecordOf(getattr(obj, col), d, RefOf(col), tgt[1], fuel - 1)
              ELSE getattr(obj, col) = NullV
         ELSE getattr(obj, col) = raw

\* C6: with lookup enabled, when a row's <ref>_id column holds v and table
\* <ref> has a row with id = v, the Record's <ref>_id attribute is a Record,
\* not the raw integer, whose id is v and whose other attributes are that
\* row's columns, its own <x>_id columns resolved in the same way.
C6_ResolvedIsReferencedRow ==
    (call.op = "query" /\ call.fkeylookup /\ status = "ok")
      => \A k \in 1..Len(LastRows) : \A j \in 1..Len(LastCols) :
           LET tgt == RowsWithId(db, RefOf(LastCols[j]), LastRows[k][j]) IN
           (LastCols[j] \in FkCols /\ Len(tgt) > 0)
             => LET a == getattr(result[k], LastCols[j]) IN
                /\ TypeOf(a) = "obj"
                /\ getattr(a, S_id) = LastRows[k][j]
                /\ IsRecordOf(a, db, RefOf(LastCols[j]), tgt[1], MaxRows)

C6_Witness ==
    /\ call.op = "query" /\ call.fkeylookup /\ status = "ok"
    /\ call.table = T_p /\ Len(result) = 2
    /\ TypeOf(getattr(result[1], S_d_id)) = "obj"
    /\ TypeOf(getattr(result[2], S_d_id)) = "obj"
    /\ getattr(getattr(result[1], S_d_id), S_id)
         # getattr(getattr(result[2], S_d_id), S_id)

\* C7: the Row Mapper returns one Record per fetched row, in fetch order:
\* the list is as long as the rows fetched and its k-th Record carries the
\* k-th row's values, one attribute per result column, named after it.
C7_OneRecordPerRow ==
    (call.op = "query" /\ status = "ok")
      => /\ Len(result) = Len(LastRows)
         /\ \A k \in 1..Len(LastRows) :
              /\ TypeOf(result[k]) = "obj"
              /\ DOMAIN ValOf(result[k]) = ColSet(db, call.table)
              /\ \A j \in 1..Len(LastCols) :
                   LET a   == getattr(result[k], LastCols[j])
                       raw == LastRows[k][j]
                   IN  IF call.fkeylookup /\ LastCols[j] \in FkCols
                       THEN (TypeOf(a) = "obj" /\ getattr(a, S_id) = raw) \/ a = NullV
                       ELSE a = raw

C7_Witness ==
    /\ call.op = "query" /\ status = "ok" /\ call.table = T_n
    /\ Len(result) = 2
    /\ getattr(result[1], S_nm) # getattr(result[2], S_nm)

\* some row the last call fetched leads round a cycle of rows
FetchedReachesCycle ==
    \E k \in 1..Len(LastRows) :
        ReachesCycle(db, <<call.table, ValOf(LastRows[k][ColIx(db, call.table, S_id)])>>)

=============================================================================
